---- MODULE Spec2Model ----
(***************************************************************************)
(* trapmail: the capture/store subsystem (src/src/lib.rs, src/src/util.rs). *)
(*                                                                         *)
(* Text is modelled as sequences of byte values (a Rust String / OsString / *)
(* file name is its bytes), so that formatting, ordering, pattern matching  *)
(* and UTF-8 validation are computed as the code computes them.  A stored   *)
(* file is the sequence of lexical tokens of the JSON document that         *)
(* serde_json writes (insignificant white space left out), each token being *)
(* its bytes.                                                              *)
(***************************************************************************)
EXTENDS Integers, Sequences, FiniteSets, TLC

\* ---------------------------------------------------------------- text

\* "trapmail_"
S_trapmail == <<116, 114, 97, 112, 109, 97, 105, 108, 95>>
\* "json"
S_json == <<106, 115, 111, 110>>

IsDigit(c) == c >= 48 /\ c <= 57

\* s[a..b] (empty when a > b)
Slice(s, a, b) == IF a > b THEN << >> ELSE SubSeq(s, a, b)

RECURSIVE ToDecNat(_)
ToDecNat(n) == IF n < 10 THEN <<48 + n>> ELSE ToDecNat(n \div 10) \o <<48 + (n % 10)>>

\* Display of an integer ({} in format!): decimal, no padding, '-' when negative.
ToDec(n) == IF n < 0 THEN <<45>> \o ToDecNat(0 - n) ELSE ToDecNat(n)

\* the number the decimal digits s[1..i] write
RECURSIVE FromDecUpTo(_, _)
FromDecUpTo(s, i) ==
    IF i = 0 THEN 0 ELSE 10 * FromDecUpTo(s, i - 1) + (s[i] - 48)

FromDecNat(s) == FromDecUpTo(s, Len(s))

AllDigits(s) == Len(s) >= 1 /\ \A i \in 1..Len(s) : IsDigit(s[i])

\* Ord for byte strings (str, OsStr, and Path within one parent directory):
\* lexicographic by byte, a proper prefix first.
RECURSIVE LexLessFrom(_, _, _)
LexLessFrom(a, b, i) ==
    IF i > Len(b) THEN FALSE
    ELSE IF i > Len(a) THEN TRUE
    ELSE IF a[i] # b[i] THEN a[i] < b[i]
    ELSE LexLessFrom(a, b, i + 1)

LexLess(a, b) == LexLessFrom(a, b, 1)

\* Vec::sort of a set of distinct names: ascending by LexLess (the i-th is the
\* one with i-1 names below it).
SortNames(S) ==
    [i \in 1..Cardinality(S) |->
        CHOOSE x \in S : Cardinality({y \in S : LexLess(y, x)}) = i - 1]

\* ---------------------------------------------------------------- UTF-8

IsCont(b) == b >= 128 /\ b <= 191

\* core::str::from_utf8 (called by String::from_utf8 and OsString::into_string):
\* the standard library's validation, by lead byte and the allowed range of the
\* second byte.
\* (ValidUtf8From(s, i): s[i..] is valid)
RECURSIVE ValidUtf8From(_, _)
ValidUtf8From(s, i) ==
    IF i > Len(s) THEN TRUE
    ELSE IF s[i] < 128 THEN ValidUtf8From(s, i + 1)
    ELSE IF s[i] >= 194 /\ s[i] <= 223
         THEN i + 1 <= Len(s) /\ IsCont(s[i + 1]) /\ ValidUtf8From(s, i + 2)
    ELSE IF s[i] >= 224 /\ s[i] <= 239
         THEN /\ i + 2 <= Len(s)
              /\ \/ s[i] = 224 /\ s[i + 1] >= 160 /\ s[i + 1] <= 191
                 \/ s[i] >= 225 /\ s[i] <= 236 /\ IsCont(s[i + 1])
                 \/ s[i] = 237 /\ s[i + 1] >= 128 /\ s[i + 1] <= 159
                 \/ s[i] >= 238 /\ IsCont(s[i + 1])
              /\ IsCont(s[i + 2])
              /\ ValidUtf8From(s, i + 3)
    ELSE IF s[i] >= 240 /\ s[i] <= 244
         THEN /\ i + 3 <= Len(s)
              /\ \/ s[i] = 240 /\ s[i + 1] >= 144 /\ s[i + 1] <= 191
                 \/ s[i] >= 241 /\ s[i] <= 243 /\ IsCont(s[i + 1])
                 \/ s[i] = 244 /\ s[i + 1] >= 128 /\ s[i + 1] <= 143
              /\ IsCont(s[i + 2])
              /\ IsCont(s[i + 3])
              /\ ValidUtf8From(s, i + 4)
    ELSE FALSE

ValidUtf8(s) == ValidUtf8From(s, 1)

\* ---------------------------------------------------------------- file names

\* FILENAME_RE = trapmail_\d+_\d+_\d+.json , used through Regex::is_match: the
\* pattern is not anchored and its '.' is the any-character class (not '\n').

\* index of the first non-digit at or after i (Len(s)+1 when there is none)
RECURSIVE DigitsEnd(_, _)
DigitsEnd(s, i) ==
    IF i <= Len(s) /\ IsDigit(s[i]) THEN DigitsEnd(s, i + 1) ELSE i

\* does the pattern match s starting at index i
MatchAt(s, i) ==
    LET n  == Len(s)
        a0 == i + 9
        a1 == DigitsEnd(s, a0)
        b0 == a1 + 1
        b1 == DigitsEnd(s, b0)
        c0 == b1 + 1
        c1 == DigitsEnd(s, c0)
    IN  /\ i + 8 <= n
        /\ SubSeq(s, i, i + 8) = S_trapmail
        /\ a1 > a0 /\ a1 <= n /\ s[a1] = 95
        /\ b1 > b0 /\ b1 <= n /\ s[b1] = 95
        /\ c1 > c0
        \* the third \d+ may give back digits to '.', which matches any byte
        \* but a line feed
        /\ \E d \in (c0 + 1)..c1 :
              /\ d + 4 <= n
              /\ s[d] # 10
              /\ SubSeq(s, d + 1, d + 4) = S_json

FILENAME_RE_is_match(s) == \E i \in 1..Len(s) : MatchAt(s, i)

\* ---------------------------------------------------------------- JSON

\* a Rust string literal as bytes, for the keys serde derives from field names
K_cli_options       == <<99, 108, 105, 95, 111, 112, 116, 105, 111, 110, 115>>
K_debug             == <<100, 101, 98, 117, 103>>
K_ignore_dots       == <<105, 103, 110, 111, 114, 101, 95, 100, 111, 116, 115>>
K_inline_recipients == <<105, 110, 108, 105, 110, 101, 95, 114, 101, 99, 105, 112, 105, 101, 110, 116, 115>>
K_addresses         == <<97, 100, 100, 114, 101, 115, 115, 101, 115>>
K_dump              == <<100, 117, 109, 112>>
K_pid               == <<112, 105, 100>>
K_ppid              == <<112, 112, 105, 100>>
K_body              == <<98, 111, 100, 121>>
K_Utf8              == <<85, 116, 102, 56>>
K_Invalid           == <<73, 110, 118, 97, 108, 105, 100>>
K_timestamp_us      == <<116, 105, 109, 101, 115, 116, 97, 109, 112, 95, 117, 115>>

T_lbrace == <<123>>
T_rbrace == <<125>>
T_lbrack == <<91>>
T_rbrack == <<93>>
T_colon  == <<58>>
T_comma  == <<44>>
T_true   == <<116, 114, 117, 101>>
T_false  == <<102, 97, 108, 115, 101>>
T_null   == <<110, 117, 108, 108>>

HexDigit(v) == IF v < 10 THEN 48 + v ELSE 87 + v
HexValue(c) == IF IsDigit(c) THEN c - 48
               ELSE IF c >= 97 /\ c <= 102 THEN c - 87
               ELSE IF c >= 65 /\ c <= 70 THEN c - 55
               ELSE 0 - 1

\* serde_json's string escaping of one byte
EscapeByte(b) ==
    IF b = 34 THEN <<92, 34>>
    ELSE IF b = 92 THEN <<92, 92>>
    ELSE IF b = 8  THEN <<92, 98>>
    ELSE IF b = 9  THEN <<92, 116>>
    ELSE IF b = 10 THEN <<92, 110>>
    ELSE IF b = 12 THEN <<92, 102>>
    ELSE IF b = 13 THEN <<92, 114>>
    ELSE IF b < 32 THEN <<92, 117, 48, 48, HexDigit(b \div 16), HexDigit(b % 16)>>
    ELSE <<b>>

\* the escaping of s[i..]
RECURSIVE EscapeFrom(_, _)
EscapeFrom(s, i) == IF i > Len(s) THEN << >> ELSE EscapeByte(s[i]) \o EscapeFrom(s, i + 1)

Escape(s) == EscapeFrom(s, 1)

\* a JSON string token: the escaped text between quotes
StrTok(s) == <<34>> \o Escape(s) \o <<34>>
NumTok(n) == ToDec(n)
BoolTok(b) == IF b THEN T_true ELSE T_false

\* what the escape sequence starting at s[i] (a backslash) stands for, and its
\* length; len 0 for an escape serde_json rejects
EscapeAt(s, i) ==
    IF i + 1 > Len(s) THEN [len |-> 0, byte |-> 0]
    ELSE IF s[i + 1] = 34  THEN [len |-> 2, byte |-> 34]
    ELSE IF s[i + 1] = 92  THEN [len |-> 2, byte |-> 92]
    ELSE IF s[i + 1] = 47  THEN [len |-> 2, byte |-> 47]
    ELSE IF s[i + 1] = 98  THEN [len |-> 2, byte |-> 8]
    ELSE IF s[i + 1] = 116 THEN [len |-> 2, byte |-> 9]
    ELSE IF s[i + 1] = 110 THEN [len |-> 2, byte |-> 10]
    ELSE IF s[i + 1] = 102 THEN [len |-> 2, byte |-> 12]
    ELSE IF s[i + 1] = 114 THEN [len |-> 2, byte |-> 13]
    ELSE IF /\ s[i + 1] = 117 /\ i + 5 <= Len(s) /\ s[i + 2] = 48 /\ s[i + 3] = 48
            /\ HexValue(s[i + 4]) >= 0 /\ HexValue(s[i + 4]) < 8 /\ HexValue(s[i + 5]) >= 0
         THEN [len |-> 6, byte |-> 16 * HexValue(s[i + 4]) + HexValue(s[i + 5])]
    ELSE [len |-> 0, byte |-> 0]

\* the inverse of the escaping, on s[i..] with acc read so far; ok is FALSE for
\* an escape serde_json rejects, a raw control byte or a raw quote.  (Escapes
\* \u00XX below 0080 only: the others do not occur in the model's files.)
RECURSIVE UnescapeFrom(_, _, _)
UnescapeFrom(s, i, acc) ==
    IF i > Len(s) THEN [ok |-> TRUE, val |-> acc]
    ELSE IF s[i] = 92 THEN
        IF EscapeAt(s, i).len = 0 THEN [ok |-> FALSE, val |-> << >>]
        ELSE UnescapeFrom(s, i + EscapeAt(s, i).len, Append(acc, EscapeAt(s, i).byte))
    ELSE IF s[i] < 32 \/ s[i] = 34 THEN [ok |-> FALSE, val |-> << >>]
    ELSE UnescapeFrom(s, i + 1, Append(acc, s[i]))

Unescape(s) == UnescapeFrom(s, 1, << >>)

\* a token read as a JSON string (serde_json also requires the text to be UTF-8)
ReadStr(t) ==
    IF Len(t) >= 2 /\ t[1] = 34 /\ t[Len(t)] = 34
    THEN LET r == Unescape(Slice(t, 2, Len(t) - 1))
         IN  [ok |-> r.ok /\ ValidUtf8(r.val), val |-> r.val]
    ELSE [ok |-> FALSE, val |-> << >>]

\* a token read as an integer within lo..hi
ReadInt(t, lo, hi) ==
    LET neg == Len(t) >= 1 /\ t[1] = 45
        d   == IF neg THEN Tail(t) ELSE t
        okd == AllDigits(d) /\ (Len(d) = 1 \/ d[1] # 48)
        v   == IF okd THEN (IF neg THEN 0 - FromDecNat(d) ELSE FromDecNat(d)) ELSE 0
    IN  [ok |-> okd /\ v >= lo /\ v <= hi, val |-> v]

ReadBool(t) == [ok |-> t \in {T_true, T_false}, val |-> t = T_true]

\* ---------------------------------------------------------------- Mail

\* Option<T> is a sequence of at most one element: << >> is None, <<x>> is Some(x).
None == << >>
Some(x) == <<x>>

\* The value standing for "no Mail" where a variable may hold one.
NoMail == [cli_options |-> [debug |-> FALSE, ignore_dots |-> FALSE,
                            inline_recipients |-> FALSE, addresses |-> << >>, dump |-> None],
           pid |-> 0 - 1, ppid |-> 0 - 1,
           body |-> [tag |-> "Utf8", bytes |-> << >>],
           timestamp_us |-> 0]

\* String::from_utf8: Ok(String) owning the bytes, or Err(FromUtf8Error) that
\* still owns them (into_bytes gives them back).
String_from_utf8(raw) == [ok |-> ValidUtf8(raw), bytes |-> raw]

\* from_raw keeping, of a body that is not UTF-8, all but its last byte
from_raw_lossy(raw_body) ==
    LET r == String_from_utf8(raw_body)
    IN  IF r.ok THEN [tag |-> "Utf8", bytes |-> r.bytes]
        ELSE [tag |-> "Invalid", bytes |-> Slice(r.bytes, 1, Len(r.bytes) - 1)]

\* MailBody::from_raw
from_raw(raw_body) ==
    LET r == String_from_utf8(raw_body)
    IN  IF r.ok THEN [tag |-> "Utf8", bytes |-> r.bytes]
        ELSE [tag |-> "Invalid", bytes |-> r.bytes]

\* Mail::file_name: format!("trapmail_{}_{}_{}.json", timestamp_us, ppid, pid)
file_name(mail) ==
    S_trapmail \o ToDec(mail.timestamp_us) \o <<95>> \o ToDec(mail.ppid) \o <<95>>
        \o ToDec(mail.pid) \o <<46>> \o S_json

\* ---------------------------------------------------------------- serialization

\* the tokens of the elements i.. of an array, given each element's token
RECURSIVE SerItemsFrom(_, _)
SerItemsFrom(toks, i) ==
    IF i > Len(toks) THEN << >>
    ELSE IF i = Len(toks) THEN <<toks[i]>>
    ELSE <<toks[i], T_comma>> \o SerItemsFrom(toks, i + 1)

SerArray(toks) == <<T_lbrack>> \o SerItemsFrom(toks, 1) \o <<T_rbrack>>

Key(k) == <<StrTok(k), T_colon>>

\* #[derive(Serialize)] for CliOptions.  A PathBuf that is not UTF-8 cannot be
\* serialized: the error comes after the key of dump has been written.
SerializeCliOptions(c) ==
    LET head == <<T_lbrace>> \o Key(K_debug) \o <<BoolTok(c.debug), T_comma>>
                \o Key(K_ignore_dots) \o <<BoolTok(c.ignore_dots), T_comma>>
                \o Key(K_inline_recipients) \o <<BoolTok(c.inline_recipients), T_comma>>
                \o Key(K_addresses)
                \o SerArray([i \in 1..Len(c.addresses) |-> StrTok(c.addresses[i])])
                \o <<T_comma>> \o Key(K_dump)
    IN  IF c.dump = None THEN [ok |-> TRUE, toks |-> head \o <<T_null, T_rbrace>>]
        ELSE IF ValidUtf8(c.dump[1])
             THEN [ok |-> TRUE, toks |-> head \o <<StrTok(c.dump[1]), T_rbrace>>]
        ELSE [ok |-> FALSE, toks |-> head]

\* #[derive(Serialize)] for MailBody: externally tagged; Invalid goes through
\* serde_bytes, which serde_json writes as an array of numbers.
SerializeMailBody(b) ==
    IF b.tag = "Utf8"
    THEN <<T_lbrace>> \o Key(K_Utf8) \o <<StrTok(b.bytes), T_rbrace>>
    ELSE <<T_lbrace>> \o Key(K_Invalid)
         \o SerArray([i \in 1..Len(b.bytes) |-> NumTok(b.bytes[i])]) \o <<T_rbrace>>

\* SerializeMail writing pid under "ppid" and ppid under "pid"
SerializeMail_swapped(m) ==
    LET c == SerializeCliOptions(m.cli_options)
        head == <<T_lbrace>> \o Key(K_cli_options) \o c.toks
    IN  IF ~c.ok THEN [ok |-> FALSE, toks |-> head]
        ELSE [ok |-> TRUE,
              toks |-> head \o <<T_comma>> \o Key(K_pid) \o <<NumTok(m.ppid), T_comma>>
                       \o Key(K_ppid) \o <<NumTok(m.pid), T_comma>>
                       \o Key(K_body) \o SerializeMailBody(m.body) \o <<T_comma>>
                       \o Key(K_timestamp_us) \o <<NumTok(m.timestamp_us), T_rbrace>>]

\* #[derive(Serialize)] for Mail, as serde_json::to_writer_pretty writes it:
\* ok with the whole document, or not ok with what was written before the error.
SerializeMail(m) ==
    LET c == SerializeCliOptions(m.cli_options)
        head == <<T_lbrace>> \o Key(K_cli_options) \o c.toks
    IN  IF ~c.ok THEN [ok |-> FALSE, toks |-> head]
        ELSE [ok |-> TRUE,
              toks |-> head \o <<T_comma>> \o Key(K_pid) \o <<NumTok(m.pid), T_comma>>
                       \o Key(K_ppid) \o <<NumTok(m.ppid), T_comma>>
                       \o Key(K_body) \o SerializeMailBody(m.body) \o <<T_comma>>
                       \o Key(K_timestamp_us) \o <<NumTok(m.timestamp_us), T_rbrace>>]

\* ---------------------------------------------------------------- deserialization

\* the token at i, or the empty token (which matches nothing) past the end
Tok(toks, i) == IF i >= 1 /\ i <= Len(toks) THEN toks[i] ELSE << >>

I32Max == 2147483647
I32Min == (0 - 2147483647) - 1
U8Max  == 255

\* one array element: a string (kind "str") or a byte (kind "u8")
ReadElem(t, kind) == IF kind = "str" THEN ReadStr(t) ELSE ReadInt(t, 0, U8Max)

\* the elements from index i on, up to and including the closing bracket, with
\* acc read so far
RECURSIVE ParseElems(_, _, _, _)
ParseElems(toks, i, kind, acc) ==
    IF ~ReadElem(Tok(toks, i), kind).ok THEN [ok |-> FALSE, val |-> << >>, next |-> i]
    ELSE IF Tok(toks, i + 1) = T_rbrack
         THEN [ok |-> TRUE, val |-> Append(acc, ReadElem(Tok(toks, i), kind).val),
               next |-> i + 2]
    ELSE IF Tok(toks, i + 1) = T_comma
         THEN ParseElems(toks, i + 2, kind, Append(acc, ReadElem(Tok(toks, i), kind).val))
    ELSE [ok |-> FALSE, val |-> << >>, next |-> i]

\* an array starting at index i; next is the index after its closing bracket
ParseArray(toks, i, kind) ==
    IF Tok(toks, i) # T_lbrack THEN [ok |-> FALSE, val |-> << >>, next |-> i]
    ELSE IF Tok(toks, i + 1) = T_rbrack THEN [ok |-> TRUE, val |-> << >>, next |-> i + 2]
    ELSE ParseElems(toks, i + 1, kind, << >>)

\* does toks hold the tokens pat at index i
Expect(toks, i, pat) == \A k \in 1..Len(pat) : Tok(toks, i + k - 1) = pat[k]

\* The one element of a singleton set.  { F(x) : x \in {e} } binds x to the value
\* of e, so that e is computed once however often F uses it.
The(S) == CHOOSE x \in S : TRUE

NoBodyRead == [ok |-> FALSE, body |-> [tag |-> "Utf8", bytes |-> << >>], next |-> 0]

\* the value of a MailBody whose tag is tg, at index i; next is the index after it
ReadBodyValue(toks, i, tg) ==
    IF tg.ok /\ tg.val = K_Utf8
    THEN The({ [ok |-> us.ok, body |-> [tag |-> "Utf8", bytes |-> us.val], next |-> i + 1]
               : us \in {ReadStr(Tok(toks, i))} })
    ELSE IF tg.ok /\ tg.val = K_Invalid
    THEN The({ [ok |-> ia.ok, body |-> [tag |-> "Invalid", bytes |-> ia.val], next |-> ia.next]
               : ia \in {ParseArray(toks, i, "u8")} })
    ELSE NoBodyRead

\* #[derive(Deserialize)] for MailBody at index i: { "Utf8" : string } or
\* { "Invalid" : [bytes] }; next is the index of the closing brace
DeserializeMailBody(toks, i) ==
    IF Tok(toks, i) = T_lbrace /\ Tok(toks, i + 2) = T_colon
    THEN The({ ReadBodyValue(toks, i + 3, tg) : tg \in {ReadStr(Tok(toks, i + 1))} })
    ELSE NoBodyRead

\* #[derive(Deserialize)] for CliOptions, which starts at index 4; next is the
\* index of its closing brace
DeserializeCliOptions(toks) ==
    The({ The({
        [ok |-> /\ Expect(toks, 4, <<T_lbrace>> \o Key(K_debug))
                /\ ReadBool(Tok(toks, 7)).ok
                /\ Expect(toks, 8, <<T_comma>> \o Key(K_ignore_dots))
                /\ ReadBool(Tok(toks, 11)).ok
                /\ Expect(toks, 12, <<T_comma>> \o Key(K_inline_recipients))
                /\ ReadBool(Tok(toks, 15)).ok
                /\ Expect(toks, 16, <<T_comma>> \o Key(K_addresses))
                /\ ad.ok
                /\ Expect(toks, ad.next, <<T_comma>> \o Key(K_dump))
                /\ (Tok(toks, ad.next + 3) = T_null \/ ds.ok),
         val |-> [debug |-> ReadBool(Tok(toks, 7)).val,
                  ignore_dots |-> ReadBool(Tok(toks, 11)).val,
                  inline_recipients |-> ReadBool(Tok(toks, 15)).val,
                  addresses |-> ad.val,
                  dump |-> IF Tok(toks, ad.next + 3) = T_null THEN None ELSE Some(ds.val)],
         next |-> ad.next + 4]
        : ds \in {ReadStr(Tok(toks, ad.next + 3))} })
        : ad \in {ParseArray(toks, 19, "str")} })

\* the Mail made of the parts read: the options c, the numbers after index j (the
\* closing brace of the options), the body bd, the time stamp after index k (the
\* closing brace of the body)
AssembleMail(toks, c, j, pd, pp, bd, k, ts) ==
    IF /\ Expect(toks, 1, <<T_lbrace>> \o Key(K_cli_options))
       /\ c.ok
       /\ Expect(toks, j, <<T_rbrace, T_comma>> \o Key(K_pid))
       /\ pd.ok
       /\ Expect(toks, j + 5, <<T_comma>> \o Key(K_ppid))
       /\ pp.ok
       /\ Expect(toks, j + 9, <<T_comma>> \o Key(K_body))
       /\ bd.ok
       /\ Expect(toks, k, <<T_rbrace, T_comma>> \o Key(K_timestamp_us))
       /\ ts.ok
       /\ Tok(toks, k + 5) = T_rbrace
       /\ Len(toks) = k + 5
    THEN [ok |-> TRUE,
          mail |-> [cli_options |-> c.val, pid |-> pd.val, ppid |-> pp.val,
                    body |-> bd.body, timestamp_us |-> ts.val]]
    ELSE [ok |-> FALSE, mail |-> NoMail]

\* the part of the document after the options c
DeserializeAfterOptions(toks, c) ==
    The({ The({ AssembleMail(toks, c, c.next, pd, pp, bd, bd.next, ts)
                : pd \in {ReadInt(Tok(toks, c.next + 4), I32Min, I32Max)},
                  pp \in {ReadInt(Tok(toks, c.next + 8), I32Min, I32Max)},
                  ts \in {ReadInt(Tok(toks, bd.next + 4), 0, I32Max)} })
          : bd \in {DeserializeMailBody(toks, c.next + 12)} })

\* #[derive(Deserialize)] for Mail through serde_json::from_reader, for documents
\* whose fields come in the order the serializer writes them: ok with the Mail,
\* or not ok (serde_json::Error) for anything else, a truncated document included.
\* (timestamp_us is a u128; the model's numbers stay below 2^31.)
DeserializeMail(toks) ==
    The({ DeserializeAfterOptions(toks, c) : c \in {DeserializeCliOptions(toks)} })

\* ---------------------------------------------------------------- load, enumeration

\* an element of the enumeration: Ok(mail) or an Error
Item(kind, mail) == [kind |-> kind, mail |-> mail]
DirErr == Item("DirEnumeration", NoMail)

\* Mail::load on the file called name of the directory d
Mail_load(d, name) ==
    IF name \notin DOMAIN d THEN Item("Load", NoMail)
    ELSE LET r == DeserializeMail(d[name])
         IN  IF r.ok THEN Item("Ok", r.mail) ELSE Item("MailDeserialization", NoMail)

\* MailStore::iter_mails up to the construction of the iterator.  listOk: whether
\* fs::read_dir and the reading of its entries succeed.  Every entry's name is
\* converted with into_string().expect(..) before the pattern is tried.
iter_mails(d, listOk) ==
    IF ~listOk THEN [kind |-> "Err", paths |-> << >>]
    ELSE IF \E n \in DOMAIN d : ~ValidUtf8(n) THEN [kind |-> "Panic", paths |-> << >>]
    ELSE [kind |-> "Ok", paths |-> SortNames({n \in DOMAIN d : FILENAME_RE_is_match(n)})]

\* util::read_dir_matching with FILENAME_RE as its filter
read_dir_matching(d, listOk) ==
    IF ~listOk THEN [kind |-> "DirReadFailed", paths |-> << >>]
    ELSE IF \E n \in DOMAIN d : ~ValidUtf8(n) THEN [kind |-> "NonUnicodeFilename", paths |-> << >>]
    ELSE [kind |-> "Ok", paths |-> SortNames({n \in DOMAIN d : FILENAME_RE_is_match(n)})]

\* The reader's iterator.  tag "Failed" / "Inner" are FlattenResult's variants;
\* Inner holds paths.into_iter().map(Mail::load): the sorted paths and the index
\* of the next one.  "NoIter": no enumeration yet; "Listed" / "ListErr": the
\* reader holds the result of read_dir_matching instead.
Flat(tag, err, paths) == [tag |-> tag, err |-> err, paths |-> paths, pos |-> 1]

\* FlattenResultsIter::flatten_results
flatten_results(r) ==
    IF r.kind = "Ok" THEN Flat("Inner", None, r.paths)
    ELSE Flat("Failed", Some(DirErr), << >>)

\* Map_next ending the enumeration at the first file that fails to load
Map_next_stop(f, d) ==
    IF f.pos <= Len(f.paths)
    THEN [it |-> Some(Mail_load(d, f.paths[f.pos])), arg |-> Some(f.paths[f.pos]),
          st |-> IF Mail_load(d, f.paths[f.pos]).kind = "Ok"
                 THEN [f EXCEPT !.pos = @ + 1]
                 ELSE [f EXCEPT !.pos = Len(f.paths) + 1]]
    ELSE [it |-> None, arg |-> None, st |-> f]

\* Map_next listing the directory anew at every call
Map_next_relist(f, d) ==
    The({ IF f.pos <= Len(ps)
          THEN [it |-> Some(Mail_load(d, ps[f.pos])), arg |-> Some(ps[f.pos]),
                st |-> [f EXCEPT !.paths = ps, !.pos = @ + 1]]
          ELSE [it |-> None, arg |-> None, st |-> [f EXCEPT !.paths = ps]]
          : ps \in {SortNames({n \in DOMAIN d : FILENAME_RE_is_match(n)})} })

\* next of paths.into_iter().map(Mail::load): the item (an Option), the path
\* Mail::load was called with (an Option), and the iterator afterwards
Map_next(f, d) ==
    IF f.pos <= Len(f.paths)
    THEN [it |-> Some(Mail_load(d, f.paths[f.pos])), arg |-> Some(f.paths[f.pos]),
          st |-> [f EXCEPT !.pos = @ + 1]]
    ELSE [it |-> None, arg |-> None, st |-> f]

\* FlattenResult::next returning the error without taking it
FlattenResult_next_keep(f, d) ==
    IF f.tag = "Failed" THEN [it |-> f.err, arg |-> None, st |-> f]
    ELSE Map_next(f, d)

\* FlattenResult::next
FlattenResult_next(f, d) ==
    IF f.tag = "Failed" THEN [it |-> f.err, arg |-> None, st |-> [f EXCEPT !.err = None]]
    ELSE Map_next(f, d)

\* ---------------------------------------------------------------- bounds, inputs

\* wall clock, in nanoseconds since the epoch, at the start
ClockStart == 8500
\* the model stops the clock here
MaxClock == 10500
\* time passes in steps of this many nanoseconds
TickNanos == 1000
\* Mail::new calls in one behaviour
MaxMails == 2
\* longest raw body tried on from_raw alone
MaxRawLen == 4
\* enumerations of the root by the reader in one behaviour
MaxEnums == 1

\* thread::sleep(Duration::from_nanos(1000))
SleepNanos == 1000
\* Duration::as_micros
NanosPerMicro == 1000

\* the writer processes: (pid, ppid) of each
ProcIds == <<[pid |-> 5, ppid |-> 1], [pid |-> 12, ppid |-> 5]>>
Procs == DOMAIN ProcIds

Opts(dump) == [debug |-> TRUE, ignore_dots |-> TRUE, inline_recipients |-> TRUE,
               addresses |-> << <<97, 64, 98>> >>, dump |-> dump]

\* what Mail::new is called with: options and raw body.  A text body with a
\* quote and a line feed, a body that is not UTF-8, and options whose dump path
\* is not UTF-8.
Inputs == { [cli |-> Opts(None), raw |-> <<72, 105, 34, 10>>],
            [cli |-> Opts(None), raw |-> <<255, 254, 0>>],
            [cli |-> Opts(Some(<<47, 255>>)), raw |-> <<72, 105>>] }

\* names of files other programs left in the root: "notes.txt",
\* "trapmail_9_1_5.json.bak", and a name that is not UTF-8
J_notes == <<110, 111, 116, 101, 115, 46, 116, 120, 116>>
J_bak   == S_trapmail \o <<57, 95, 49, 95, 53, 46>> \o S_json \o <<46, 98, 97, 107>>
J_bad   == <<255, 46, 116>>
JunkDirs == { {}, {J_notes, J_bak}, {J_bad} }

\* bytes the raw bodies of the from_raw check are made of: ASCII, continuation
\* bytes, and lead bytes of every width, the boundary ones included
RawBytes == {65, 143, 144, 159, 160, 192, 194, 224, 237, 240, 244, 245}
RawSeqs == UNION { [1..n -> RawBytes] : n \in 0..MaxRawLen }

\* ---------------------------------------------------------------- state

VARIABLES
    clock,      \* the system's wall clock (SystemTime::now), in nanoseconds
    dir,        \* the store root: file name -> content (tokens)
    pend,       \* per writer: the Mail it has created and not yet added, or NoMail
    made,       \* per writer: the file names of the Mails it created, in order
    clobbered,  \* whether an add has truncated a file that was already there
    lastAdded,  \* the Mail of the latest successful add whose file is untouched since
    addRes,     \* what the latest add returned
    flat,       \* the reader's iterator (see Flat)
    yielded,    \* what the reader's next() calls returned, in order
    innerOut,   \* what the inner iterator (the map over the paths) produced, in order
    loaded,     \* the paths Mail::load was called with, in order
    atCall,     \* the names in the directory when the reader last enumerated it
    stable,     \* whether the directory is unchanged since then
    target,     \* lastAdded as it was then
    exhausted,  \* whether next() has returned None since then
    panicked,   \* whether the reader has panicked
    enums,      \* how many times the reader has enumerated the root
    conv        \* the from_raw check: the raw bytes and the MailBody made of them

vars == <<clock, dir, pend, made, clobbered, lastAdded, addRes, flat, yielded,
          innerOut, loaded, atCall, stable, target, exhausted, panicked, enums, conv>>

writerVars == <<pend, made, clobbered, lastAdded, addRes>>
readerVars == <<flat, yielded, innerOut, loaded, atCall, stable, target, exhausted, panicked,
                enums>>

NoBody == [tag |-> "None", bytes |-> << >>]
NoAdd == [kind |-> "None", inner |-> "-", path |-> << >>]

EmptyDir(names) == [n \in names |-> << >>]

StoreInit(junk) ==
    /\ clock = ClockStart
    /\ dir = EmptyDir(junk)
    /\ pend = [p \in Procs |-> NoMail]
    /\ made = [p \in Procs |-> << >>]
    /\ clobbered = FALSE
    /\ lastAdded = NoMail
    /\ addRes = NoAdd
    /\ flat = Flat("NoIter", None, << >>)
    /\ yielded = << >>
    /\ innerOut = << >>
    /\ loaded = << >>
    /\ atCall = {}
    /\ stable = FALSE
    /\ target = NoMail
    /\ exhausted = FALSE
    /\ panicked = FALSE
    /\ enums = 0

Init ==
    /\ \E junk \in JunkDirs : StoreInit(junk)
    /\ conv = [raw |-> << >>, body |-> NoBody]

\* ---------------------------------------------------------------- the clock

TotalMade == Len(made[1]) + Len(made[2])

\* time passes (the model follows the clock while a Mail can still be made)
Tick ==
    /\ TotalMade < MaxMails
    /\ clock + TickNanos <= MaxClock
    /\ clock' = clock + TickNanos
    /\ UNCHANGED <<dir, writerVars, readerVars, conv>>

\* the wall clock is set back (SystemTime is not monotonic: an NTP step, an
\* administrator), by one sleep's length
ClockSetBack ==
    /\ TotalMade < MaxMails
    /\ clock - SleepNanos >= ClockStart
    /\ clock' = clock - SleepNanos
    /\ UNCHANGED <<dir, writerVars, readerVars, conv>>

\* ---------------------------------------------------------------- writers

\* Mail::new(cli_options, raw_body) in process p: sleep, read the clock, build
Mail_new(p, cli_options, raw_body, now) ==
    [cli_options |-> cli_options,
     pid |-> ProcIds[p].pid, ppid |-> ProcIds[p].ppid,
     body |-> from_raw(raw_body),
     timestamp_us |-> now \div NanosPerMicro]

MailNew(p) ==
    /\ pend[p] = NoMail
    /\ TotalMade < MaxMails
    /\ clock + SleepNanos <= MaxClock
    /\ \E in \in Inputs :
          LET now == clock + SleepNanos
              m   == Mail_new(p, in.cli, in.raw, now)
          IN  /\ clock' = now
              /\ pend' = [pend EXCEPT ![p] = m]
              /\ made' = [made EXCEPT ![p] = Append(@, file_name(m))]
    /\ UNCHANGED <<dir, clobbered, lastAdded, addRes, readerVars, conv>>

\* File::create(root.join(name)) followed by writing content
WriteFile(d, name, content) ==
    [n \in DOMAIN d \cup {name} |-> IF n = name THEN content ELSE d[n]]

\* MailStore::add(&mail).  fsOut is what the file system does: "ok",
\* "create_fails" (File::create returns an error) or "write_fails" (a write
\* returns an error after cut tokens have reached the file).  res.kind is the
\* variant of Result / Error returned, res.inner what failed underneath: the
\* creation of the file, a write to it, or the encoding of the record (the last
\* two both arrive as a serde_json::Error).  The path is the file name: the
\* root is the same for every path of the model.
add(d, mail, fsOut, cut) ==
    LET name == file_name(mail)
        ser  == SerializeMail(mail)
    IN  IF fsOut = "create_fails"
        THEN [dir |-> d, res |-> [kind |-> "Store", inner |-> "create", path |-> << >>]]
        ELSE IF fsOut = "write_fails" /\ cut < Len(ser.toks)
        THEN [dir |-> WriteFile(d, name, Slice(ser.toks, 1, cut)),
              res |-> [kind |-> "MailSerialization", inner |-> "write", path |-> << >>]]
        ELSE IF ~ser.ok
        THEN [dir |-> WriteFile(d, name, ser.toks),
              res |-> [kind |-> "MailSerialization", inner |-> "encode", path |-> << >>]]
        ELSE [dir |-> WriteFile(d, name, ser.toks),
              res |-> [kind |-> "Ok", inner |-> "-", path |-> name]]

\* where a failing write stops: half way through the document
WriteCuts(mail) == {Len(SerializeMail(mail).toks) \div 2}

Add(p) ==
    /\ pend[p] # NoMail
    /\ \E fsOut \in {"ok", "create_fails", "write_fails"} :
       \E cut \in (IF fsOut = "write_fails" THEN WriteCuts(pend[p]) ELSE {0}) :
          LET m == pend[p]
              r == add(dir, m, fsOut, cut)
              name == file_name(m)
              touched == fsOut # "create_fails"
          IN  /\ dir' = r.dir
              /\ addRes' = r.res
              /\ clobbered' = (clobbered \/ (touched /\ name \in DOMAIN dir))
              /\ lastAdded' = IF r.res.kind = "Ok" THEN m
                              ELSE IF touched /\ lastAdded # NoMail /\ file_name(lastAdded) = name
                                   THEN NoMail
                              ELSE lastAdded
              /\ stable' = (stable /\ ~touched)
    /\ pend' = [pend EXCEPT ![p] = NoMail]
    /\ UNCHANGED <<clock, made, flat, yielded, innerOut, loaded, atCall, target,
                   exhausted, panicked, enums, conv>>

\* ---------------------------------------------------------------- the reader

\* store.iter_mails().flatten_results()
IterMails ==
    /\ ~panicked
    /\ enums < MaxEnums
    /\ enums' = enums + 1
    /\ \E listOk \in BOOLEAN :
          LET r == iter_mails(dir, listOk)
          IN  IF r.kind = "Panic"
              THEN /\ panicked' = TRUE
                   /\ UNCHANGED <<flat, yielded, innerOut, loaded, atCall, stable,
                                  target, exhausted>>
              ELSE /\ flat' = flatten_results(r)
                   /\ yielded' = << >>
                   /\ innerOut' = << >>
                   /\ loaded' = << >>
                   /\ atCall' = DOMAIN dir
                   /\ stable' = TRUE
                   /\ target' = lastAdded
                   /\ exhausted' = FALSE
                   /\ UNCHANGED panicked
    /\ UNCHANGED <<clock, dir, writerVars, conv>>

\* read_dir_matching(root, &FILENAME_RE)
ReadDirMatching ==
    /\ ~panicked
    /\ enums < MaxEnums
    /\ enums' = enums + 1
    /\ \E listOk \in BOOLEAN :
          LET r == read_dir_matching(dir, listOk)
          IN  flat' = Flat(IF r.kind = "Ok" THEN "Listed" ELSE r.kind, None, r.paths)
    /\ yielded' = << >>
    /\ innerOut' = << >>
    /\ loaded' = << >>
    /\ atCall' = DOMAIN dir
    /\ stable' = TRUE
    /\ target' = lastAdded
    /\ exhausted' = FALSE
    /\ UNCHANGED <<clock, dir, writerVars, panicked, conv>>

\* one call of next() on the reader's iterator
NextItem ==
    /\ ~panicked
    /\ flat.tag \in {"Failed", "Inner"}
    /\ LET r == FlattenResult_next(flat, dir)
           i == Map_next(flat, dir)
       IN  /\ flat' = r.st
           /\ yielded' = yielded \o r.it
           /\ exhausted' = (exhausted \/ r.it = None)
           /\ innerOut' = IF flat.tag = "Inner" THEN innerOut \o i.it ELSE innerOut
           /\ loaded' = loaded \o r.arg
    /\ UNCHANGED <<clock, dir, writerVars, atCall, stable, target, panicked, enums, conv>>

Next ==
    \/ Tick
    \/ ClockSetBack
    \/ \E p \in Procs : MailNew(p)
    \/ \E p \in Procs : Add(p)
    \/ IterMails
    \/ ReadDirMatching
    \/ NextItem

Spec == Init /\ [][Next]_vars

\* ---------------------------------------------------------------- from_raw alone

BodyInit ==
    /\ StoreInit({})
    /\ \E raw \in RawSeqs : conv = [raw |-> raw, body |-> NoBody]

\* MailBody::from_raw(raw)
FromRaw ==
    /\ conv.body = NoBody
    /\ conv' = [conv EXCEPT !.body = from_raw(conv.raw)]
    /\ UNCHANGED <<clock, dir, writerVars, readerVars>>

BodyNext == FromRaw

BodySpec == BodyInit /\ [][BodyNext]_vars

\* ---------------------------------------------------------------- properties

\* the whole name has the form trapmail_<digits>_<digits>_<digits>.json
IsRecordName(s) ==
    /\ Len(s) >= 9
    /\ SubSeq(s, 1, 9) = S_trapmail
    /\ \E a, b, c \in 10..Len(s) :
          /\ a < b /\ b < c
          /\ AllDigits(SubSeq(s, 10, a - 1))
          /\ s[a] = 95
          /\ AllDigits(SubSeq(s, a + 1, b - 1))
          /\ s[b] = 95
          /\ AllDigits(SubSeq(s, b + 1, c - 1))
          /\ SubSeq(s, c, Len(s)) = <<46>> \o S_json

\* the Mails a writer of the model can make
AllMails ==
    { Mail_new(p, in.cli, in.raw, t * NanosPerMicro) :
        p \in Procs, in \in Inputs,
        t \in (ClockStart \div NanosPerMicro)..(MaxClock \div NanosPerMicro) }

\* the content is the complete document of some Mail
IsMailDocument(content) ==
    \E m \in AllMails : SerializeMail(m).ok /\ SerializeMail(m).toks = content

\* the enumeration went through FlattenResult::Inner and has been consumed to
\* its end while the directory stayed as it was at the call
ConsumedUnchanged ==
    /\ flat.tag = "Inner"
    /\ stable
    /\ flat.pos > Len(flat.paths)

\* C1: a Mail that add has stored, and whose file has not been written since, is
\* among the elements iter_mails yields, loaded successfully and equal to the
\* Mail added in every field (cli_options, pid, ppid, body, timestamp_us).
C1_AddThenIterYieldsMail ==
    (ConsumedUnchanged /\ target # NoMail)
        => \E i \in 1..Len(yielded) : yielded[i] = Item("Ok", target)

\* a Mail with a body that is not UTF-8 was added beside another file, and the
\* enumeration that followed has been consumed
C1_Witness ==
    /\ ConsumedUnchanged
    /\ target # NoMail
    /\ target.body.tag = "Invalid"
    /\ Len(yielded) >= 2

\* C2: iter_mails yields the records of a root in non-decreasing timestamp_us
\* order (the lexicographic order of the file names is the timestamp order).
C2_TimestampOrder ==
    flat.tag = "Inner" =>
        \A i, j \in 1..Len(yielded) :
            (i < j /\ yielded[i].kind = "Ok" /\ yielded[j].kind = "Ok")
                => yielded[i].mail.timestamp_us <= yielded[j].mail.timestamp_us

\* C3: two Mails made one after the other by Mail::new in one process have
\* different file names, and no add has truncated a file that was already there.
C3_DistinctNames ==
    /\ \A p \in Procs : \A i \in 1..(Len(made[p]) - 1) : made[p][i] # made[p][i + 1]
    /\ ~clobbered

\* C4: iter_mails produces an element only for a directory entry whose whole name
\* has the form trapmail_<digits>_<digits>_<digits>.json.
C4_OnlyRecordNames ==
    \A i \in 1..Len(loaded) : IsRecordName(loaded[i])

\* the root holds validly named record files only, of which exactly one is not
\* the complete document of a Mail
OneCorrupted ==
    /\ \A n \in DOMAIN dir : IsRecordName(n)
    /\ Cardinality({n \in DOMAIN dir : ~IsMailDocument(dir[n])}) = 1

\* the place of name n in the sorted order of the directory's names
SortedPosition(n) == 1 + Cardinality({x \in DOMAIN dir : LexLess(x, n)})

\* C5: with N validly named files of which exactly one is corrupted, consuming
\* iter_mails yields N elements: a failure at the corrupted file's place in the
\* sorted order, and at every other place the record of the file sorted there.
C5_OneFailureAmongN ==
    (ConsumedUnchanged /\ OneCorrupted) =>
        /\ Len(yielded) = Cardinality(DOMAIN dir)
        /\ \A n \in DOMAIN dir :
              IF IsMailDocument(dir[n])
              THEN /\ yielded[SortedPosition(n)].kind = "Ok"
                   /\ SerializeMail(yielded[SortedPosition(n)].mail).toks = dir[n]
              ELSE yielded[SortedPosition(n)].kind = "MailDeserialization"

\* two files, the corrupted one sorted first, the valid one loaded after it
C5_Witness ==
    /\ ConsumedUnchanged
    /\ OneCorrupted
    /\ Cardinality(DOMAIN dir) = 2
    /\ yielded[1].kind = "MailDeserialization"
    /\ yielded[2].kind = "Ok"

\* C6: when the root cannot be listed the flattened sequence yields the directory
\* error once and nothing after it, and no file is loaded; when it can be, the
\* flattened sequence yields what the inner sequence produces, in the same order.
C6_DirErrorFirstAndOnly ==
    /\ flat.tag = "Failed" =>
          /\ loaded = << >>
          /\ yielded = (IF flat.err = None THEN <<DirErr>> ELSE << >>)
          /\ exhausted => flat.err = None
    /\ flat.tag = "Inner" => yielded = innerOut

\* the root holds a record file, could not be listed, and next has returned the
\* error and then None
C6_Witness ==
    /\ flat.tag = "Failed"
    /\ exhausted
    /\ yielded = <<DirErr>>
    /\ \E n \in DOMAIN dir : IsRecordName(n) /\ IsMailDocument(dir[n])

\* the names that match the pattern among those present at the call
MatchingAtCall == {n \in atCall : FILENAME_RE_is_match(n)}

\* C7: the sequence is fixed when iter_mails returns: its paths are the matching
\* files present then, each once; next loads them in order, one per call, never a
\* file added later; after at most that many elements next returns None.
C7_FixedAtCallTime ==
    flat.tag = "Inner" =>
        /\ {flat.paths[i] : i \in 1..Len(flat.paths)} = MatchingAtCall
        /\ Len(flat.paths) = Cardinality(MatchingAtCall)
        /\ Len(loaded) <= Len(flat.paths)
        /\ loaded = SubSeq(flat.paths, 1, Len(loaded))
        /\ Len(yielded) = Len(loaded)
        /\ exhausted => Len(yielded) = Len(flat.paths)

\* a matching file was added after the call, and the sequence has been consumed
\* to its end
C7_Witness ==
    /\ flat.tag = "Inner"
    /\ exhausted
    /\ Len(yielded) >= 1
    /\ \E n \in DOMAIN dir \ atCall : FILENAME_RE_is_match(n)

\* UTF-8 by its definition: the encoding of a Unicode scalar value in 1 to 4 bytes
Utf8Encode(cp) ==
    IF cp < 128 THEN <<cp>>
    ELSE IF cp < 2048 THEN <<192 + (cp \div 64), 128 + (cp % 64)>>
    ELSE IF cp < 65536
         THEN <<224 + (cp \div 4096), 128 + ((cp \div 64) % 64), 128 + (cp % 64)>>
    ELSE <<240 + (cp \div 262144), 128 + ((cp \div 4096) % 64),
           128 + ((cp \div 64) % 64), 128 + (cp % 64)>>

IsScalarValue(cp) == (cp >= 0 /\ cp <= 55295) \/ (cp >= 57344 /\ cp <= 1114111)

\* the payload bits of the w bytes at s[i..]
PayloadBits(s, i, w) ==
    IF w = 1 THEN s[i]
    ELSE IF w = 2 THEN (s[i] % 32) * 64 + (s[i + 1] % 64)
    ELSE IF w = 3 THEN (s[i] % 16) * 4096 + (s[i + 1] % 64) * 64 + (s[i + 2] % 64)
    ELSE (s[i] % 8) * 262144 + (s[i + 1] % 64) * 4096 + (s[i + 2] % 64) * 64 + (s[i + 3] % 64)

\* s[i..] is a concatenation of encodings of scalar values
RECURSIVE IsUtf8TextFrom(_, _)
IsUtf8TextFrom(s, i) ==
    IF i > Len(s) THEN TRUE
    ELSE \E w \in 1..4 :
            /\ i + w - 1 <= Len(s)
            /\ IsScalarValue(PayloadBits(s, i, w))
            /\ Utf8Encode(PayloadBits(s, i, w)) = SubSeq(s, i, i + w - 1)
            /\ IsUtf8TextFrom(s, i + w)

\* C8: from_raw yields the Utf8 variant exactly when the bytes are UTF-8 text and
\* the Invalid variant otherwise, and the body holds exactly the bytes given.
C8_FromRawKeepsBytes ==
    conv.body # NoBody =>
        /\ conv.body.tag = (IF IsUtf8TextFrom(conv.raw, 1) THEN "Utf8" ELSE "Invalid")
        /\ conv.body.bytes = conv.raw

\* a body that starts as UTF-8 text and then stops being it, made Invalid
C8_Witness ==
    /\ conv.body.tag = "Invalid"
    /\ Len(conv.raw) = MaxRawLen
    /\ conv.raw[1] = 65
    /\ conv.body.bytes = conv.raw

\* C9: add reports Error::Store whenever the file cannot be created or written,
\* and Error::MailSerialization only when the record cannot be encoded.
C9_StoreErrorOnWriteFailure ==
    /\ addRes.inner \in {"create", "write"} => addRes.kind = "Store"
    /\ addRes.kind = "MailSerialization" => addRes.inner = "encode"

\* C10: with an entry in the root whose name is not text, enumerating the root
\* does not abort the process.
C10_NoPanic ==
    (\E n \in DOMAIN dir : ~ValidUtf8(n)) => ~panicked

====
